---- MODULE Spec2Model ----
(***************************************************************************)
(* A model of the ray tracer: the recursive shading routine ray_color and  *)
(* the analytic test hit_sphere (src/src/main.rs), the Ray type            *)
(* (src/src/ray.rs), the pixel loop of main, and the sphere / scene        *)
(* intersection routines the shading routine queries.                      *)
(*                                                                         *)
(* Numbers.  f64 values are modelled as exact rationals [n, d].  A vector  *)
(* that the program builds from literals is an integer triple counted in   *)
(* units of 1/Scale, so 0.5 is Scale \div 2.  f64::sqrt is the one inexact *)
(* primitive: ISqrt rounds down to the next integer of the grid and is     *)
(* exact on perfect squares.  1/0 is Inf, 0/0 is NaN.                      *)
(***************************************************************************)
EXTENDS Integers, Sequences, FiniteSets, TLC

VARIABLES
    pc, r, depth, rec, hit_anything, evals, stack, result, d0,
    dpc, row, i, s, pixel_color, samples, uv, out, written,
    gpc, query, answer

mvars == <<pc, r, depth, rec, hit_anything, evals, stack, result, d0>>
dvars == <<dpc, row, i, s, pixel_color, samples, uv, out, written>>
gvars == <<gpc, query, answer>>
vars == <<mvars, dvars, gvars>>

(***************************************************************************)
(* Units and bounds                                                        *)
(***************************************************************************)
\* Grid units per 1.0: even, so that 0.5 is on the grid, and a multiple of 3,
\* so that points just outside the fixed sphere of radius 0.5 are on it too.
Scale == 2 * 3

\* Spacing of the grid the random source draws sample components from.
SampleStep == Scale \div 2

\* Depth the driver passes to ray_color (50 in the program), and the largest
\* depth ray_color is entered with.
MAX_DEPTH == 3

(***************************************************************************)
(* Rational arithmetic (f64)                                               *)
(***************************************************************************)
Abs(x) == IF x < 0 THEN -x ELSE x

RECURSIVE GCD(_, _)
GCD(a, b) == IF b = 0 THEN a ELSE GCD(b, a % b)

\* n/d in lowest terms with d >= 0; x/0 is Inf, -Inf or NaN.
Rat(n, d) ==
    IF d = 0
    THEN [n |-> IF n > 0 THEN 1 ELSE IF n < 0 THEN -1 ELSE 0, d |-> 0]
    ELSE LET g == GCD(Abs(n), Abs(d))
             sg == IF d < 0 THEN -1 ELSE 1
         IN  [n |-> sg * (n \div g), d |-> sg * (d \div g)]

Zero == Rat(0, 1)
One == Rat(1, 1)
Inf == Rat(1, 0)
NaN == Rat(0, 0)

IsNaN(x) == x.n = 0 /\ x.d = 0

RAdd(x, y) ==
    IF IsNaN(x) \/ IsNaN(y) THEN NaN
    ELSE IF x.d = 0 /\ y.d = 0 THEN (IF x.n = y.n THEN x ELSE NaN)
    ELSE IF x.d = 0 THEN x
    ELSE IF y.d = 0 THEN y
    ELSE Rat(x.n * y.d + y.n * x.d, x.d * y.d)

RMul(x, y) == IF IsNaN(x) \/ IsNaN(y) THEN NaN ELSE Rat(x.n * y.n, x.d * y.d)

RNeg(x) == [n |-> -x.n, d |-> x.d]

RSub(x, y) == RAdd(x, RNeg(y))

\* x < y and x <= y; every comparison with NaN is false, as in IEEE 754.
RLess(x, y) ==
    /\ ~IsNaN(x)
    /\ ~IsNaN(y)
    /\ IF x.d = 0 /\ y.d = 0 THEN x.n < y.n ELSE x.n * y.d < y.n * x.d

RLeq(x, y) == ~IsNaN(x) /\ ~IsNaN(y) /\ (x = y \/ RLess(x, y))

RECURSIVE SqrtSearch(_, _, _)
SqrtSearch(n, lo, hi) ==
    IF lo >= hi THEN lo
    ELSE LET mid == (lo + hi + 1) \div 2
         IN  IF mid * mid <= n
             THEN SqrtSearch(n, mid, hi)
             ELSE SqrtSearch(n, lo, mid - 1)

\* f64::sqrt on a non-negative grid value: the largest k with k * k <= n.
ISqrt(n) == SqrtSearch(n, 0, IF n < 46340 THEN n ELSE 46340)

(***************************************************************************)
(* Vec3 / Point3 on the grid, and Ray                                      *)
(***************************************************************************)
Vec3(x, y, z) == <<x, y, z>>

VAdd(u, v) == <<u[1] + v[1], u[2] + v[2], u[3] + v[3]>>

VSub(u, v) == <<u[1] - v[1], u[2] - v[2], u[3] - v[3]>>

VScale(k, v) == <<k * v[1], k * v[2], k * v[3]>>

dot(u, v) == u[1] * v[1] + u[2] * v[2] + u[3] * v[3]

length_squared(v) == dot(v, v)

\* v / length(v), each component a rational; NaN for the zero vector.
unit_vector(v) ==
    LET len == ISqrt(length_squared(v))
    IN  [k \in 1..3 |-> Rat(v[k], len)]

\* Ray::new, Ray::origin, Ray::direction
NewRay(origin, direction) == [orig |-> origin, dir |-> direction]

origin(ray) == ray.orig

direction(ray) == ray.dir

\* Ray::at for a rational parameter t: orig + dir * t, as the integer triple
\* v over the common denominator den (still in units of 1/Scale).
at(ray, t) ==
    [v |-> VAdd(VScale(t.d, ray.orig), VScale(t.n, ray.dir)), den |-> t.d]

(***************************************************************************)
(* Color                                                                   *)
(***************************************************************************)
Color(x, y, z) == <<x, y, z>>

Black == Color(Zero, Zero, Zero)

White == Color(One, One, One)

SkyBlue == Color(Rat(1, 2), Rat(7, 10), One)

CScale(k, c) == [n \in 1..3 |-> RMul(k, c[n])]

CAdd(c1, c2) == [n \in 1..3 |-> RAdd(c1[n], c2[n])]

(***************************************************************************)
(* hit_sphere: the secondary analytic test of the shading routine          *)
(***************************************************************************)
\* The value main.rs line 33 calls the discriminant.
Discriminant(half_b, a, c) == half_b * half_b - 4 * a * c

hit_sphere(center, radius, ray) ==
    LET oc == VSub(origin(ray), center)
        a == length_squared(direction(ray))
        half_b == dot(oc, direction(ray))
        c == length_squared(oc) - radius * radius
        discriminant == Discriminant(half_b, a, c)
    IN  IF discriminant < 0
        THEN Rat(-1, 1)
        ELSE Rat(-half_b - ISqrt(discriminant), a)

\* The fixed sphere of ray_color's miss branch: center (0,0,-2), radius 0.5.
FixedCenter == Vec3(0, 0, -2 * Scale)

FixedRadius == Scale \div 2

\* 0.5 * Color(n.x + 1, n.y + 1, n.z + 1) for the unit normal n at r.at(t).
NormalColor(ray, t) ==
    LET p == at(ray, t)
        n == unit_vector(VSub(p.v, VScale(p.den, FixedCenter)))
    IN  CScale(Rat(1, 2), Color(RAdd(n[1], One), RAdd(n[2], One), RAdd(n[3], One)))

\* The gradient with its two ends exchanged.
SkyColorSwapped(dir) ==
    LET unit_direction == unit_vector(dir)
        t == RMul(Rat(1, 2), RAdd(unit_direction[2], One))
    IN  CAdd(CScale(t, White), CScale(RSub(One, t), SkyBlue))

\* The sky gradient for the ray's direction.
SkyColor(dir) ==
    LET unit_direction == unit_vector(dir)
        t == RMul(Rat(1, 2), RAdd(unit_direction[2], One))
    IN  CAdd(CScale(RSub(One, t), White), CScale(t, SkyBlue))

(***************************************************************************)
(* The collaborators ray_color calls                                       *)
(***************************************************************************)
\* HitRecord::new(): the default record (t and front_face are never read by
\* ray_color and are left out).
NewHitRecord == [p |-> Vec3(0, 0, 0), normal |-> Vec3(0, 0, 0)]

\* Points a scene may report as the hit point: the front and the bottom of
\* the small sphere of main's scene, and a point just outside the fixed
\* sphere of the miss branch.
HitPoints ==
    { Vec3(0, 0, -(Scale \div 2)),
      Vec3(0, -(Scale \div 2), -Scale),
      Vec3(1, 0, -(3 * Scale) \div 2) }

\* Unit normals on the grid: the six along the axes.
Normals ==
    { n \in {-Scale, 0, Scale} \X {-Scale, 0, Scale} \X {-Scale, 0, Scale} :
        length_squared(n) = Scale * Scale }

\* What world.hit(r, t_min, t_max, rec) may answer for a `dyn Hittable`
\* world: no hit, or a hit whose record holds a point and a unit normal.
WorldHit(ray, prev) ==
    {[hit |-> FALSE, rec |-> prev]}
        \cup {[hit |-> TRUE, rec |-> [p |-> q, normal |-> n]] :
                q \in HitPoints, n \in Normals}

\* Components the random source draws, each in [-1, 1].
SampleCoords == {k \in -Scale..Scale : k % SampleStep = 0}

\* Whether the rejection sampler keeps a candidate.
InUnitSphere(p) == length_squared(p) < Scale * Scale

\* vec3::random_in_unit_sphere(): the points the rejection sampler can return.
random_in_unit_sphere ==
    {p \in SampleCoords \X SampleCoords \X SampleCoords : InUnitSphere(p)}

(***************************************************************************)
(* ray_color, one activation at a time                                     *)
(*                                                                         *)
(* pc is the position in the activation being evaluated, r, depth, rec its *)
(* arguments and local record; hit_anything is what world.hit answered and *)
(* evals the tests this activation has evaluated.  stack holds the         *)
(* suspended callers, innermost last.  A caller suspended at line 50 reads *)
(* neither r nor rec again, so its frame keeps depth and the bookkeeping   *)
(* only.  d0 is the depth of the outermost call.                           *)
(***************************************************************************)
NoColor == Color(NaN, NaN, NaN)

\* Rays ray_color is first called with.
InitRays ==
    { NewRay(Vec3(0, 0, 0), Vec3(0, Scale, 0)),
      NewRay(Vec3(0, 0, 0), Vec3(0, 0, -Scale)),
      NewRay(Vec3(0, 0, 0), Vec3(Scale, -Scale, -Scale)),
      NewRay(Vec3(1, 0, -(3 * Scale) \div 2), Vec3(0, 0, -Scale)) }

InitDepths == -1..MAX_DEPTH

\* The recursion is cut off when more callers than this are suspended.
StackCap == MAX_DEPTH + 2

\* The depth test off by one.
DepthExhaustedBelowZero(d) == d < 0

\* line 44
DepthExhausted(d) == d <= 0

\* The bounce direction without the surface normal.
BounceDirectionSampleOnly(record, sample) == sample

\* line 49
BounceDirection(record, sample) == VAdd(record.normal, sample)

\* The recursive call at the caller's own depth.
NextDepthSame(d) == d

\* The recursive result handed back unscaled.
AttenuateNot(c) == c

\* line 50: the depth and the albedo of the recursive call
NextDepth(d) == d - 1

Attenuate(c) == CScale(Rat(1, 2), c)

MachineIdle ==
    /\ pc = "idle"
    /\ r = NewRay(Vec3(0, 0, 0), Vec3(0, 0, 0))
    /\ depth = 0
    /\ rec = NewHitRecord
    /\ hit_anything = FALSE
    /\ evals = {}
    /\ stack = <<>>
    /\ result = NoColor
    /\ d0 = 0

DriverIdle ==
    /\ dpc = "idle"
    /\ row = 0
    /\ i = 0
    /\ s = 0
    /\ pixel_color = Black
    /\ samples = <<>>
    /\ uv = <<Zero, Zero>>
    /\ out = <<>>
    /\ written = NoColor

GeomIdle ==
    /\ gpc = "idle"
    /\ query = <<>>
    /\ answer = <<>>

Init ==
    /\ pc = "entry"
    /\ r \in InitRays
    /\ depth \in InitDepths
    /\ d0 = depth
    /\ rec = NewHitRecord
    /\ hit_anything = FALSE
    /\ evals = {}
    /\ stack = <<>>
    /\ result = NoColor
    /\ DriverIdle
    /\ GeomIdle

\* lines 44-46
ReturnBlack ==
    /\ pc = "entry"
    /\ DepthExhausted(depth)
    /\ result' = Color(Zero, Zero, Zero)
    /\ pc' = "ret"
    /\ UNCHANGED <<r, depth, rec, hit_anything, evals, stack, d0>>
    /\ UNCHANGED <<dvars, gvars>>

\* line 48
SceneQuery ==
    /\ pc = "entry"
    /\ ~DepthExhausted(depth)
    /\ \E w \in WorldHit(r, rec) :
        /\ rec' = w.rec
        /\ hit_anything' = w.hit
        /\ pc' = IF w.hit THEN "hit" ELSE "miss"
    /\ evals' = evals \cup {"scene"}
    /\ UNCHANGED <<r, depth, stack, result, d0>>
    /\ UNCHANGED <<dvars, gvars>>

\* lines 49-50, up to the recursive call
Bounce ==
    /\ pc = "hit"
    /\ Len(stack) < StackCap
    /\ \E sample \in random_in_unit_sphere :
        r' = NewRay(rec.p, BounceDirection(rec, sample))
    /\ depth' = NextDepth(depth)
    /\ stack' = Append(stack, [depth |-> depth, evals |-> evals,
                               hit_anything |-> hit_anything])
    /\ rec' = NewHitRecord
    /\ hit_anything' = FALSE
    /\ evals' = {}
    /\ pc' = "entry"
    /\ UNCHANGED <<result, d0>>
    /\ UNCHANGED <<dvars, gvars>>

\* lines 53-57
Secondary ==
    /\ pc = "miss"
    /\ evals' = evals \cup {"secondary"}
    /\ LET t == hit_sphere(FixedCenter, FixedRadius, r)
       IN  IF RLess(Zero, t)
           THEN result' = NormalColor(r, t) /\ pc' = "ret"
           ELSE result' = result /\ pc' = "sky"
    /\ UNCHANGED <<r, depth, rec, hit_anything, stack, d0>>
    /\ UNCHANGED <<dvars, gvars>>

\* lines 59-61
Sky ==
    /\ pc = "sky"
    /\ evals' = evals \cup {"sky"}
    /\ result' = SkyColor(direction(r))
    /\ pc' = "ret"
    /\ UNCHANGED <<r, depth, rec, hit_anything, stack, d0>>
    /\ UNCHANGED <<dvars, gvars>>

\* line 50, after the recursive call has returned: the caller returns in turn
ReturnToCaller ==
    /\ pc = "ret"
    /\ stack # <<>>
    /\ LET frame == stack[Len(stack)]
       IN  /\ depth' = frame.depth
           /\ evals' = frame.evals
           /\ hit_anything' = frame.hit_anything
    /\ stack' = SubSeq(stack, 1, Len(stack) - 1)
    /\ result' = Attenuate(result)
    /\ pc' = "ret"
    /\ UNCHANGED <<r, rec, d0>>
    /\ UNCHANGED <<dvars, gvars>>

\* the outermost activation hands its value back
Finish ==
    /\ pc = "ret"
    /\ stack = <<>>
    /\ pc' = "done"
    /\ UNCHANGED <<r, depth, rec, hit_anything, evals, stack, result, d0>>
    /\ UNCHANGED <<dvars, gvars>>

Next ==
    \/ ReturnBlack
    \/ SceneQuery
    \/ Bounce
    \/ Secondary
    \/ Sky
    \/ ReturnToCaller
    \/ Finish

Spec == Init /\ [][Next]_vars

(***************************************************************************)
(* main: the pixel loop                                                    *)
(*                                                                         *)
(* out is what has been printed on stdout, as the header and then one      *)
(* entry per write_color call; written is the colour the latest            *)
(* write_color call was handed.  samples lists, for the pixel being        *)
(* rendered, the ray_color calls made so far.  The progress text on stderr *)
(* is left out.                                                            *)
(***************************************************************************)
\* const IMAGE_WIDTH (400 in the program)
IMAGE_WIDTH == 4

\* const IMAGE_HEIGHT = (IMAGE_WIDTH as f64 / ASPECT_RATIO) as i32, 16 / 9
IMAGE_HEIGHT == (IMAGE_WIDTH * 9) \div 16

\* const SAMPLES_PER_PIXEL (100 in the program)
SAMPLES_PER_PIXEL == 2

\* common::random_double() returns k / JitterDen for k in 0..JitterDen-1
JitterDen == 2

random_double == {Rat(k, JitterDen) : k \in 0..(JitterDen - 1)}

\* The rows without .rev(): bottom row first.
RowOrderAscending == [k \in 1..IMAGE_HEIGHT |-> k - 1]

\* (0..IMAGE_HEIGHT).rev(): the k-th value of j
RowOrder == [k \in 1..IMAGE_HEIGHT |-> IMAGE_HEIGHT - k]

\* 0..IMAGE_WIDTH: whether i is still in the range
InRow(col) == col < IMAGE_WIDTH

\* The accumulator carried over from the previous pixel.
NewPixelColorCarried(previous) == previous

\* line 85
NewPixelColor(previous) == Color(Zero, Zero, Zero)

\* lines 87 and 88: (index + random_double()) / (size - 1)
ViewportCoord(index, jitter, size) ==
    RMul(RAdd(Rat(index, 1), jitter), Rat(1, size - 1))

\* Camera::get_ray(u, v): the ray through the viewport point (u, v)
get_ray(u, v) == [u |-> u, v |-> v]

\* Values ray_color(&r, &world, MAX_DEPTH) hands back to the driver: black,
\* the sky straight up, and the sky seen after one and after two bounces.
RayColorValues ==
    LET top == SkyColor(Vec3(0, Scale, 0))
    IN  {Black, top, Attenuate(top), Attenuate(Attenuate(top))}

InitMain ==
    /\ dpc = "start"
    /\ row = 0
    /\ i = 0
    /\ s = 0
    /\ pixel_color = Black
    /\ samples = <<>>
    /\ uv = <<Zero, Zero>>
    /\ out = <<>>
    /\ written = NoColor
    /\ MachineIdle
    /\ GeomIdle

\* line 80
PrintHeader ==
    /\ dpc = "start"
    /\ out' = Append(out, [kind |-> "header", width |-> IMAGE_WIDTH,
                           height |-> IMAGE_HEIGHT])
    /\ row' = 1
    /\ dpc' = "row"
    /\ UNCHANGED <<i, s, pixel_color, samples, uv, written>>
    /\ UNCHANGED <<mvars, gvars>>

\* line 82: the next j, or the end of the loop
BeginRow ==
    /\ dpc = "row"
    /\ IF row <= Len(RowOrder)
       THEN i' = 0 /\ dpc' = "pixel"
       ELSE i' = i /\ dpc' = "end"
    /\ UNCHANGED <<row, s, pixel_color, samples, uv, out, written>>
    /\ UNCHANGED <<mvars, gvars>>

\* lines 84-85: the next i, or the end of the row
BeginPixel ==
    /\ dpc = "pixel"
    /\ IF InRow(i)
       THEN /\ pixel_color' = NewPixelColor(pixel_color)
            /\ s' = 0
            /\ samples' = <<>>
            /\ dpc' = "sample"
            /\ row' = row
       ELSE /\ row' = row + 1
            /\ dpc' = "row"
            /\ UNCHANGED <<pixel_color, s, samples>>
    /\ UNCHANGED <<i, uv, out, written>>
    /\ UNCHANGED <<mvars, gvars>>

\* lines 86-91: one sample
Sample ==
    /\ dpc = "sample"
    /\ s < SAMPLES_PER_PIXEL
    /\ \E ju \in random_double, jv \in random_double, c \in RayColorValues :
        LET u == ViewportCoord(i, ju, IMAGE_WIDTH)
            v == ViewportCoord(RowOrder[row], jv, IMAGE_HEIGHT)
            ray == get_ray(u, v)
        IN  /\ uv' = <<ray.u, ray.v>>
            /\ pixel_color' = CAdd(pixel_color, c)
            /\ samples' = Append(samples,
                                 [pixel |-> <<i, RowOrder[row]>>,
                                  depth |-> MAX_DEPTH, color |-> c])
    /\ s' = s + 1
    /\ UNCHANGED <<dpc, row, i, out, written>>
    /\ UNCHANGED <<mvars, gvars>>

\* line 92
WritePixel ==
    /\ dpc = "sample"
    /\ s >= SAMPLES_PER_PIXEL
    /\ written' = pixel_color
    /\ out' = Append(out, [kind |-> "pixel", i |-> i, j |-> RowOrder[row]])
    /\ i' = i + 1
    /\ dpc' = "pixel"
    /\ UNCHANGED <<row, s, pixel_color, samples, uv>>
    /\ UNCHANGED <<mvars, gvars>>

NextMain ==
    \/ PrintHeader
    \/ BeginRow
    \/ BeginPixel
    \/ Sample
    \/ WritePixel

SpecMain == InitMain /\ [][NextMain]_vars

(***************************************************************************)
(* Sphere and the scene list                                               *)
(***************************************************************************)
Sphere(center, radius) == [center |-> center, radius |-> radius]

\* main's world with the small sphere given radius 1.0.
WorldUnitRadius ==
    << Sphere(Vec3(0, 0, -Scale), Scale),
       Sphere(Vec3(0, -(100 * Scale + Scale \div 2), -Scale), 100 * Scale) >>

\* main's world: lines 72-74
World ==
    << Sphere(Vec3(0, 0, -Scale), Scale \div 2),
       Sphere(Vec3(0, -(100 * Scale + Scale \div 2), -Scale), 100 * Scale) >>

NoHit == [hit |-> FALSE, rec |-> <<>>]

\* t strictly inside (t_min, t_max)
InRange(t, t_min, t_max) == RLess(t_min, t) /\ RLess(t, t_max)

\* Sphere::hit
SphereHit(sp, ray, t_min, t_max) ==
    LET oc == VSub(origin(ray), sp.center)
        a == length_squared(direction(ray))
        half_b == dot(oc, direction(ray))
        c == length_squared(oc) - sp.radius * sp.radius
        discriminant == half_b * half_b - a * c
        sqrtd == ISqrt(discriminant)
        near == Rat(-half_b - sqrtd, a)
        far == Rat(-half_b + sqrtd, a)
        Record(t) ==
            LET p == at(ray, t)
            IN  [t |-> t, p |-> p,
                 normal |-> [v |-> VSub(p.v, VScale(p.den, sp.center)),
                             den |-> p.den * sp.radius]]
    IN  IF discriminant < 0 THEN NoHit
        ELSE IF InRange(near, t_min, t_max)
             THEN [hit |-> TRUE, rec |-> Record(near)]
        ELSE IF InRange(far, t_min, t_max)
             THEN [hit |-> TRUE, rec |-> Record(far)]
        ELSE NoHit

\* HittableList::hit from the k-th primitive on, with the answer so far and
\* the closest parameter so far
RECURSIVE ListHitFrom(_, _, _, _, _, _)
ListHitFrom(world, k, ray, t_min, closest_so_far, sofar) ==
    IF k > Len(world) THEN sofar
    ELSE LET temp == SphereHit(world[k], ray, t_min, closest_so_far)
         IN  IF temp.hit
             THEN ListHitFrom(world, k + 1, ray, t_min, temp.rec.t, temp)
             ELSE ListHitFrom(world, k + 1, ray, t_min, closest_so_far, sofar)

ListHit(world, ray, t_min, t_max) ==
    ListHitFrom(world, 1, ray, t_min, t_max, NoHit)

(***************************************************************************)
(* The intersection routines applied to bounded inputs                     *)
(***************************************************************************)
\* A third sphere, where ray_color's fixed sphere is
BackSphere == Sphere(FixedCenter, FixedRadius)

AllSpheres == {World[1], World[2], BackSphere}

\* Scene lists of up to three distinct spheres, in every order
Worlds ==
    {<<>>}
        \cup {<<a>> : a \in AllSpheres}
        \cup {w \in AllSpheres \X AllSpheres : w[1] # w[2]}
        \cup {w \in AllSpheres \X AllSpheres \X AllSpheres :
                w[1] # w[2] /\ w[1] # w[3] /\ w[2] # w[3]}

GeomOrigins ==
    { Vec3(0, 0, 0), Vec3(0, 0, -Scale), Vec3(1, 0, -(3 * Scale) \div 2),
      Vec3(0, Scale \div 2, 0) }

GeomDirections ==
    { Vec3(0, 0, -Scale), Vec3(0, Scale, 0), Vec3(0, -Scale, 0),
      Vec3(0, -1, -2), Vec3(0, 0, Scale), Vec3(1, 0, -Scale) }

GeomRays == {NewRay(o, d) : o \in GeomOrigins, d \in GeomDirections}

\* (t_min, t_max) pairs; ray_color asks for (0, infinity)
Intervals ==
    { <<Zero, Inf>>, <<Zero, One>>, <<Rat(1, 2), Inf>>, <<One, Rat(2, 1)>> }

InitGeom ==
    /\ gpc = "idle"
    /\ query = <<>>
    /\ answer = <<>>
    /\ MachineIdle
    /\ DriverIdle

AskListHit ==
    /\ gpc = "idle"
    /\ \E w \in Worlds, ray \in GeomRays, iv \in Intervals :
        /\ query' = [world |-> w, ray |-> ray, t_min |-> iv[1], t_max |-> iv[2]]
        /\ answer' = ListHit(w, ray, iv[1], iv[2])
    /\ gpc' = "list"
    /\ UNCHANGED <<mvars, dvars>>

AskHitSphere ==
    /\ gpc = "idle"
    /\ \E sp \in AllSpheres, ray \in GeomRays :
        /\ query' = [center |-> sp.center, radius |-> sp.radius, ray |-> ray]
        /\ answer' = hit_sphere(sp.center, sp.radius, ray)
    /\ gpc' = "sphere"
    /\ UNCHANGED <<mvars, dvars>>

NextGeom ==
    \/ AskListHit
    \/ AskHitSphere

SpecGeom == InitGeom /\ [][NextGeom]_vars

(***************************************************************************)
(* Properties of ray_color (Spec)                                          *)
(***************************************************************************)
\* C1: ray_color entered with depth <= 0 returns exactly black (0,0,0), and
\* that activation evaluates neither the scene hit, nor the secondary
\* fixed-sphere test, nor the sky gradient.
C1_DepthExhaustedReturnsBlack ==
    depth <= 0 =>
        /\ pc \in {"entry", "ret", "done"}
        /\ evals = {}
        /\ hit_anything = FALSE
        /\ pc \in {"ret", "done"} =>
               result = <<[n |-> 0, d |-> 1], [n |-> 0, d |-> 1], [n |-> 0, d |-> 1]>>

\* a nested activation entered at depth 0 has returned black
C1_Witness ==
    /\ pc = "ret"
    /\ depth = 0
    /\ Len(stack) >= 1
    /\ evals = {}
    /\ result = Black

\* The activations of ray_color alive in a state.
Activations == Len(stack) + 1

\* Every recursive call is made with depth - 1, so an outermost call at
\* depth d >= 1 never has more than d + 1 activations alive, whatever the
\* scene and the sampler answer.
C2_ChainBound ==
    /\ pc # "done" => depth + Len(stack) = d0
    /\ d0 >= 1 => Activations <= d0 + 1
    /\ d0 <= 0 => Activations = 1

\* An upper bound on the steps the call still has to take: it is never
\* negative and every step lowers it, so no run takes infinitely many.
Rank ==
    CASE pc = "entry" -> 3 * (IF depth > 0 THEN depth ELSE 0) + Len(stack) + 2
      [] pc = "hit" -> 3 * depth + Len(stack) + 1
      [] pc = "miss" -> Len(stack) + 3
      [] pc = "sky" -> Len(stack) + 2
      [] pc = "ret" -> Len(stack) + 1
      [] OTHER -> 0

\* Short of "done" a step is always possible: each position has its action,
\* and the only guarded one, the recursive call, is never cut off.
C2_Progress ==
    /\ Rank >= 0
    /\ pc \in {"entry", "hit", "miss", "sky", "ret", "done"}
    /\ pc = "hit" => Len(stack) < StackCap /\ random_in_unit_sphere # {}

\* C2: ray_color always terminates, each recursive call being made with
\* depth - 1: the chain bound above holds throughout, a step is always
\* possible short of the end, and every step lowers Rank.
C2_Terminates == []C2_ChainBound /\ []C2_Progress /\ [][Rank' < Rank]_vars

\* the longest chain: MAX_DEPTH + 1 activations, the innermost at depth 0
C2_Witness ==
    /\ d0 = MAX_DEPTH
    /\ Activations = MAX_DEPTH + 1
    /\ depth = 0
    /\ pc = "ret"

\* The largest k with k * k <= n, by its defining property.
FloorRoot(n) == CHOOSE k \in 0..n : k * k <= n /\ n < (k + 1) * (k + 1)

\* (1 - t) * (1,1,1) + t * (0.5,0.7,1.0) for t = num / den, spelled out per
\* channel: (2 den - num) / (2 den), (10 den - 3 num) / (10 den), 1.
Blend(num, den) ==
    <<Rat(2 * den - num, 2 * den), Rat(10 * den - 3 * num, 10 * den), Rat(1, 1)>>

\* C6: for depth >= 1, when the scene and the secondary fixed sphere are both
\* missed, ray_color returns (1 - t) * (1,1,1) + t * (0.5,0.7,1.0) with
\* t = 0.5 * (y + 1), y the vertical component of the normalized direction;
\* for the direction (0,1,0) that is exactly (0.5, 0.7, 1.0).
C6_SkyGradient ==
    (pc = "ret" /\ "sky" \in evals) =>
        LET len == FloorRoot(r.dir[1] * r.dir[1] + r.dir[2] * r.dir[2]
                                + r.dir[3] * r.dir[3])
        IN  /\ depth >= 1
            /\ hit_anything = FALSE
            /\ evals = {"scene", "secondary", "sky"}
            \* y = dir.y / len, so t = (dir.y + len) / (2 len)
            /\ result = Blend(r.dir[2] + len, 2 * len)
            /\ r.dir = <<0, Scale, 0>> =>
                   result = <<[n |-> 1, d |-> 2], [n |-> 7, d |-> 10], [n |-> 1, d |-> 1]>>

\* the ray straight up has missed everything and come back as sky-blue
C6_Witness ==
    /\ pc = "ret"
    /\ "sky" \in evals
    /\ r.dir = <<0, Scale, 0>>
    /\ depth >= 1
    /\ result = SkyBlue

\* x' is exactly half of x
IsHalfOf(y, x) ==
    IF x.d = 0 THEN y = x ELSE y.d # 0 /\ 2 * y.n * x.d = x.n * y.d

\* The bounce ray of the record: from the hit point, along normal + sample
\* for a sample of squared length < 1.
IsBounceRay(ray, record) ==
    LET sample == <<ray.dir[1] - record.normal[1],
                    ray.dir[2] - record.normal[2],
                    ray.dir[3] - record.normal[3]>>
    IN  /\ ray.orig = record.p
        /\ sample[1] * sample[1] + sample[2] * sample[2]
             + sample[3] * sample[3] < Scale * Scale
        /\ record.normal[1] * record.normal[1] + record.normal[2] * record.normal[2]
             + record.normal[3] * record.normal[3] = Scale * Scale

C8_Levels ==
    /\ hit_anything => evals = {"scene"} /\ depth >= 1
    /\ ("secondary" \in evals \/ "sky" \in evals) =>
           ~hit_anything /\ "scene" \in evals
    /\ \A k \in 1..Len(stack) :
           stack[k].evals = {"scene"} /\ stack[k].hit_anything /\ stack[k].depth >= 1

C8_Steps ==
    /\ pc = "hit" =>
           /\ pc' = "entry"
           /\ depth' = depth - 1
           /\ IsBounceRay(r', rec)
           /\ Len(stack') = Len(stack) + 1
    /\ (pc = "ret" /\ stack # <<>>) =>
           /\ \A k \in 1..3 : IsHalfOf(result'[k], result[k])
           /\ Len(stack') = Len(stack) - 1
           /\ pc' = "ret"

\* C8: for depth >= 1, when the scene reports a hit, ray_color returns exactly
\* 0.5 times ray_color of the bounce ray (from the recorded hit point, along
\* the recorded normal plus a random point in the unit sphere) at depth - 1,
\* and that activation evaluates neither the secondary test nor the
\* gradient, which are reached only when the scene reports no hit.
C8_BounceHalvesCallee == []C8_Levels /\ [][C8_Steps]_vars

\* a caller that bounced hands back half of sky-blue
C8_Witness ==
    /\ pc = "ret"
    /\ hit_anything
    /\ evals = {"scene"}
    /\ result = Color(Rat(1, 4), Rat(7, 20), Rat(1, 2))

\* C10: every bounce ray ray_color builds has direction unit normal + sample
\* with the sample's squared length < 1, which is never the zero vector, so
\* a = |direction|^2 > 0 in every intersection test reached through the
\* recursion.
C10_BounceDirectionNonZero ==
    stack # <<>> =>
        /\ r.dir # <<0, 0, 0>>
        /\ r.dir[1] * r.dir[1] + r.dir[2] * r.dir[2] + r.dir[3] * r.dir[3] > 0

\* a bounce ray whose sample points against the normal is tested
C10_Witness ==
    /\ stack # <<>>
    /\ pc = "miss"
    /\ r.dir = <<0, Scale - SampleStep, 0>>

(***************************************************************************)
(* Properties of main (SpecMain)                                           *)
(***************************************************************************)
\* C4: every call of Camera.get_ray(u, v) has u and v in [0, 1].
C4_ViewportCoordsInUnitInterval ==
    /\ RLeq(Zero, uv[1]) /\ RLeq(uv[1], One)
    /\ RLeq(Zero, uv[2]) /\ RLeq(uv[2], One)

\* The k-th pixel of the image in row-major order, top row first.
RowMajor(k) ==
    [kind |-> "pixel", i |-> (k - 1) % IMAGE_WIDTH,
     j |-> IMAGE_HEIGHT - 1 - ((k - 1) \div IMAGE_WIDTH)]

\* C5: the header is printed once, before any pixel; then each pixel (i, j) is
\* written exactly once, rows from j = IMAGE_HEIGHT - 1 down to 0 and within
\* a row i from 0 up to IMAGE_WIDTH - 1: IMAGE_WIDTH * IMAGE_HEIGHT in all.
C5_RowMajorTopFirst ==
    /\ dpc = "start" => out = <<>>
    /\ dpc # "start" =>
           /\ Len(out) >= 1
           /\ out[1] = [kind |-> "header", width |-> IMAGE_WIDTH,
                        height |-> IMAGE_HEIGHT]
    /\ \A k \in 2..Len(out) : out[k] = RowMajor(k - 1)
    /\ Len(out) <= 1 + IMAGE_WIDTH * IMAGE_HEIGHT
    /\ dpc = "end" => Len(out) = 1 + IMAGE_WIDTH * IMAGE_HEIGHT

\* the whole image has been written
C5_Witness ==
    /\ dpc = "end"
    /\ Len(out) = 1 + IMAGE_WIDTH * IMAGE_HEIGHT
    /\ out[Len(out)] = [kind |-> "pixel", i |-> IMAGE_WIDTH - 1, j |-> 0]

RECURSIVE SumOfSamples(_)
SumOfSamples(log) ==
    IF log = <<>> THEN <<Zero, Zero, Zero>>
    ELSE LET rest == SumOfSamples(SubSeq(log, 1, Len(log) - 1))
             last == log[Len(log)].color
         IN  <<RAdd(rest[1], last[1]), RAdd(rest[2], last[2]), RAdd(rest[3], last[3])>>

\* C9: the colour handed to write_color for a pixel is the sum of exactly
\* SAMPLES_PER_PIXEL ray_color results, each for a camera ray of that pixel
\* at depth MAX_DEPTH, accumulated from black: no sample of another pixel
\* is in it.
C9_PixelIsSumOfItsSamples ==
    /\ dpc = "sample" =>
           /\ Len(samples) = s
           /\ pixel_color = SumOfSamples(samples)
           /\ \A k \in 1..Len(samples) :
                  /\ samples[k].pixel = <<i, RowOrder[row]>>
                  /\ samples[k].depth = MAX_DEPTH
    /\ (dpc \in {"pixel", "row", "end"} /\ Len(out) >= 2) =>
           /\ written = SumOfSamples(samples)
           /\ Len(samples) = SAMPLES_PER_PIXEL
           /\ \A k \in 1..Len(samples) :
                  /\ samples[k].pixel = <<out[Len(out)].i, out[Len(out)].j>>
                  /\ samples[k].depth = MAX_DEPTH

\* a pixel after the first one was written as black plus one sky-blue sample
C9_Witness ==
    /\ dpc = "pixel"
    /\ Len(out) >= 3
    /\ \E k \in 1..Len(samples) : samples[k].color = SkyBlue
    /\ \A k \in 1..Len(samples) : samples[k].color \in {SkyBlue, Black}
    /\ written = SkyBlue

(***************************************************************************)
(* Properties of the intersection routines (SpecGeom)                      *)
(***************************************************************************)
\* The parameters at which the ray's line meets the sphere.
Roots(sp, ray) ==
    LET a == dot(ray.dir, ray.dir)
        half_b == dot(VSub(ray.orig, sp.center), ray.dir)
        c == dot(VSub(ray.orig, sp.center), VSub(ray.orig, sp.center))
                 - sp.radius * sp.radius
        disc == half_b * half_b - a * c
    IN  IF disc < 0 THEN {}
        ELSE {Rat(-half_b - ISqrt(disc), a), Rat(-half_b + ISqrt(disc), a)}

\* The roots of the query's primitives that lie inside (t_min, t_max).
Candidates(q) ==
    UNION { {t \in Roots(q.world[k], q.ray) : RLess(q.t_min, t) /\ RLess(t, q.t_max)} :
              k \in 1..Len(q.world) }

SameSpheres(w1, w2) ==
    /\ Len(w1) = Len(w2)
    /\ {w1[k] : k \in 1..Len(w1)} = {w2[k] : k \in 1..Len(w2)}

\* C3: Scene.hit never reports a t outside (t_min, t_max); it reports the
\* smallest t at which any primitive meets the ray inside the interval,
\* whatever the insertion order; for main's scene and the ray from (0,0,0)
\* along (0,0,-1) over (0, infinity), the hit is on the small sphere, t = 0.5.
C3_NearestHitInRange ==
    gpc = "list" =>
        /\ answer.hit <=> Candidates(query) # {}
        /\ answer.hit =>
               /\ RLess(query.t_min, answer.rec.t)
               /\ RLess(answer.rec.t, query.t_max)
               /\ answer.rec.t \in Candidates(query)
               /\ \A t \in Candidates(query) : RLeq(answer.rec.t, t)
        /\ \A w \in Worlds :
               SameSpheres(w, query.world) =>
                   LET other == ListHit(w, query.ray, query.t_min, query.t_max)
                   IN  /\ other.hit = answer.hit
                       /\ answer.hit => other.rec.t = answer.rec.t
        /\ ( /\ query.world = World
             /\ query.ray = NewRay(<<0, 0, 0>>, <<0, 0, -Scale>>)
             /\ query.t_min = Zero
             /\ query.t_max = Inf ) =>
               /\ answer.hit
               /\ answer.rec.t = [n |-> 1, d |-> 2]
               \* the hit point (0, 0, -0.5) and the outward normal (0, 0, 1)
               /\ answer.rec.p = [v |-> <<0, 0, -Scale>>, den |-> 2]
               /\ answer.rec.normal = [v |-> <<0, 0, Scale>>, den |-> Scale]

\* main's scene, asked as ray_color asks, answers with the small sphere
C3_Witness ==
    /\ gpc = "list"
    /\ query.world = World
    /\ query.ray = NewRay(<<0, 0, 0>>, <<0, 0, -Scale>>)
    /\ query.t_min = Zero
    /\ query.t_max = Inf
    /\ answer.hit
    /\ answer.rec.t = Rat(1, 2)

\* C7: hit_sphere returns -1 exactly when half_b^2 - a*c < 0, that is when the
\* ray's line does not meet the sphere, and otherwise the smaller root
\* (-half_b - sqrt(half_b^2 - a*c)) / a.
C7_TrueDiscriminantDecides ==
    gpc = "sphere" =>
        LET oc == VSub(query.ray.orig, query.center)
            a == dot(query.ray.dir, query.ray.dir)
            half_b == dot(oc, query.ray.dir)
            c == dot(oc, oc) - query.radius * query.radius
        IN  answer = IF half_b * half_b - a * c < 0
                     THEN Rat(-1, 1)
                     ELSE Rat(-half_b - ISqrt(half_b * half_b - a * c), a)
====
